---- MODULE Spec2Model ----
(***************************************************************************)
(* A model of ls.js, a directory-listing command.  One run of the program  *)
(* is a state machine: main() parses LS_OPTIONS and the command line,      *)
(* listDirectory() reads the directory, queries every entry, sorts the     *)
(* collected items and prints them.  Strings the program inspects          *)
(* (arguments, entry names, printed fields) are sequences of one-character *)
(* strings, so that startsWith, split, padStart and toString are computed. *)
(***************************************************************************)
EXTENDS Integers, Sequences, FiniteSets, TLC

VARIABLES
  LS_OPTIONS,   \* process.env.LS_OPTIONS, a string (<<>> when unset or empty)
  argv,         \* process.argv.slice(2)
  fs,           \* the target directory as the filesystem holds it
  isTTY,        \* process.stdout.isTTY
  pc,           \* position of the run: main, readdir, stat, exited
  opts,         \* the option values listDirectory is called with
  directory,    \* the path listDirectory is called with
  entries,      \* the names readdir returned
  idx,          \* position of the for-loop over entries
  items,        \* the items collected so far
  sortedItems,  \* the result of sortItems
  stdout,       \* lines written with console.log
  stderr,       \* lines written with console.error
  exitCode,     \* the exit status of the process
  fsLog,        \* the filesystem calls made so far, in order
  call          \* the last direct call of a formatting function, with its result

runVars == <<LS_OPTIONS, argv, fs, isTTY, pc, opts, directory, entries, idx,
             items, sortedItems, stdout, stderr, exitCode, fsLog>>
vars == <<LS_OPTIONS, argv, fs, isTTY, pc, opts, directory, entries, idx,
          items, sortedItems, stdout, stderr, exitCode, fsLog, call>>

-----------------------------------------------------------------------------
(* Bounds of the model. *)

MaxArgs == 2
MaxEnvArgs == 1
MaxEntries == 3
MaxTopLimb == 2048

-----------------------------------------------------------------------------
(* Strings. *)

StartsWith(s, p) == Len(s) >= Len(p) /\ SubSeq(s, 1, Len(p)) = p

\* s.indexOf(c) + 1: the first position of character c in s, 0 when absent.
IndexOf(s, c) ==
  IF \E i \in 1..Len(s) : s[i] = c
  THEN CHOOSE i \in 1..Len(s) : s[i] = c /\ \A j \in 1..(i - 1) : s[j] # c
  ELSE 0

RECURSIVE Reverse(_)
Reverse(s) == IF s = <<>> THEN <<>> ELSE Append(Reverse(Tail(s)), Head(s))

RECURSIVE Concat(_)
Concat(ss) == IF ss = <<>> THEN <<>> ELSE Head(ss) \o Concat(Tail(ss))

RECURSIVE JoinWith(_, _)
JoinWith(ss, sep) ==
  IF ss = <<>> THEN <<>>
  ELSE IF Len(ss) = 1 THEN Head(ss)
  ELSE Head(ss) \o sep \o JoinWith(Tail(ss), sep)

\* All sequences over S of length at most n.
RECURSIVE SeqsUpTo(_, _)
SeqsUpTo(S, n) ==
  IF n = 0 THEN {<<>>}
  ELSE LET shorter == SeqsUpTo(S, n - 1)
       IN shorter \cup {Append(s, x) : s \in shorter, x \in S}

-----------------------------------------------------------------------------
(* The option table and util.parseArgs (strict, allowPositionals). *)

OptionNames ==
  {"long", "all", "classify", "color", "size", "time", "reverse",
   "human-readable", "help"}

options ==
  [n \in OptionNames |->
    CASE n = "long" ->
           [type |-> "boolean", short |-> "l", default |-> FALSE,
            spelled |-> <<"l","o","n","g">>]
      [] n = "all" ->
           [type |-> "boolean", short |-> "a", default |-> FALSE,
            spelled |-> <<"a","l","l">>]
      [] n = "classify" ->
           [type |-> "boolean", short |-> "F", default |-> FALSE,
            spelled |-> <<"c","l","a","s","s","i","f","y">>]
      [] n = "color" ->
           [type |-> "string", short |-> "", default |-> <<"a","u","t","o">>,
            spelled |-> <<"c","o","l","o","r">>]
      [] n = "size" ->
           [type |-> "boolean", short |-> "S", default |-> FALSE,
            spelled |-> <<"s","i","z","e">>]
      [] n = "time" ->
           [type |-> "boolean", short |-> "t", default |-> FALSE,
            spelled |-> <<"t","i","m","e">>]
      [] n = "reverse" ->
           [type |-> "boolean", short |-> "r", default |-> FALSE,
            spelled |-> <<"r","e","v","e","r","s","e">>]
      [] n = "human-readable" ->
           [type |-> "boolean", short |-> "h", default |-> FALSE,
            spelled |-> <<"h","u","m","a","n","-","r","e","a","d","a","b","l","e">>]
      [] n = "help" ->
           [type |-> "boolean", short |-> "", default |-> FALSE,
            spelled |-> <<"h","e","l","p">>]]

\* The option a long name or a short character stands for, "" when none.
LongKey(name) ==
  IF \E n \in OptionNames : options[n].spelled = name
  THEN CHOOSE n \in OptionNames : options[n].spelled = name
  ELSE ""

ShortKey(c) ==
  IF \E n \in OptionNames : options[n].short = c
  THEN CHOOSE n \in OptionNames : options[n].short = c
  ELSE ""

DefaultValues == [n \in OptionNames |-> options[n].default]

ParseError(acc) == [acc EXCEPT !.error = TRUE]

\* One short-option group "-abc": every character must be a known option; all
\* short options of the table are boolean.
RECURSIVE SetShorts(_, _, _)
SetShorts(tok, j, acc) ==
  IF j > Len(tok) THEN acc
  ELSE LET key == ShortKey(tok[j])
       IN IF key = "" THEN ParseError(acc)
          ELSE SetShorts(tok, j + 1, [acc EXCEPT !.values[key] = TRUE])

RECURSIVE parseFrom(_, _, _)
parseFrom(args, i, acc) ==
  IF acc.error \/ i > Len(args) THEN acc
  ELSE
    LET tok == args[i] IN
    IF tok = <<"-","-">> THEN
      \* option terminator: the rest are positionals
      [acc EXCEPT !.positionals = @ \o SubSeq(args, i + 1, Len(args))]
    ELSE IF StartsWith(tok, <<"-","-">>) THEN
      LET body == SubSeq(tok, 3, Len(tok))
          eq == IndexOf(body, "=")
          name == IF eq = 0 THEN body ELSE SubSeq(body, 1, eq - 1)
          value == SubSeq(body, eq + 1, Len(body))
          key == LongKey(name)
      IN IF key = "" THEN ParseError(acc)
         ELSE IF options[key].type = "boolean" THEN
           IF eq # 0 THEN ParseError(acc)
           ELSE parseFrom(args, i + 1, [acc EXCEPT !.values[key] = TRUE])
         ELSE IF eq # 0 THEN
           parseFrom(args, i + 1, [acc EXCEPT !.values[key] = value])
         ELSE IF i < Len(args) /\ ~StartsWith(args[i + 1], <<"-">>) THEN
           parseFrom(args, i + 2, [acc EXCEPT !.values[key] = args[i + 1]])
         ELSE ParseError(acc)
    ELSE IF StartsWith(tok, <<"-">>) /\ Len(tok) > 1 THEN
      parseFrom(args, i + 1, SetShorts(tok, 2, acc))
    ELSE
      parseFrom(args, i + 1, [acc EXCEPT !.positionals = Append(@, tok)])

parseArgs(args) ==
  parseFrom(args, 1, [values |-> DefaultValues, positionals |-> <<>>, error |-> FALSE])

\* envOptions.split(/\s+/).filter(opt => opt.length > 0)
RECURSIVE SplitWords(_, _)
SplitWords(s, word) ==
  IF s = <<>> THEN (IF word = <<>> THEN <<>> ELSE <<word>>)
  ELSE IF Head(s) = " "
       THEN (IF word = <<>> THEN <<>> ELSE <<word>>) \o SplitWords(Tail(s), <<>>)
       ELSE SplitWords(Tail(s), Append(word, Head(s)))

parseDefaultOptions(envOptions) ==
  IF envOptions = <<>> THEN <<>> ELSE SplitWords(envOptions, <<>>)

-----------------------------------------------------------------------------
(* Numbers.  A file size is a JavaScript number that may exceed 2^31, so it *)
(* is kept as its base-1024 digits, least significant first: the size      *)
(* <<a, b, c, d, e>> is a + 1024 b + 1024^2 c + 1024^3 d + 1024^4 e.       *)

KiB == 1024

IsZero(n) == \A i \in 1..Len(n) : n[i] = 0

\* The value of a number known to be small enough for an integer.
RECURSIVE IntOf(_)
IntOf(n) == IF n = <<>> THEN 0 ELSE Head(n) + KiB * IntOf(Tail(n))

NumberOf(k) == <<k % KiB, k \div KiB>>

\* n < 1024^k
Below(n, k) == \A i \in (k + 1)..Len(n) : n[i] = 0

\* The sign of a - b.
RECURSIVE Compare(_, _, _)
Compare(a, b, i) ==
  IF i = 0 THEN 0
  ELSE IF a[i] # b[i] THEN (IF a[i] < b[i] THEN -1 ELSE 1)
  ELSE Compare(a, b, i - 1)

\* Math.round(n / 1024^k): the quotient, plus one when the remainder is at
\* least half of 1024^k.
RoundedQuotient(n, k) ==
  IntOf(SubSeq(n, k + 1, Len(n))) + (IF 2 * n[k] >= KiB THEN 1 ELSE 0)

\* n divided by the small integer d, from the top digit down: quotient and
\* remainder.
RECURSIVE DivFrom(_, _, _, _)
DivFrom(n, d, i, acc) ==
  IF i = 0 THEN acc
  ELSE LET cur == acc.r * KiB + n[i]
       IN DivFrom(n, d, i - 1, [q |-> [acc.q EXCEPT ![i] = cur \div d], r |-> cur % d])

DigitChars == <<"0", "1", "2", "3", "4", "5", "6", "7", "8", "9">>

RECURSIVE Digits(_)
Digits(n) ==
  IF IsZero(n) THEN <<>>
  ELSE LET dm == DivFrom(n, Len(DigitChars), Len(n), [q |-> n, r |-> 0])
       IN Append(Digits(dm.q), DigitChars[dm.r + 1])

\* Number.prototype.toString() of a non-negative integer below 10^21.
toString(n) == IF IsZero(n) THEN <<"0">> ELSE Digits(n)

\* String.prototype.padStart(width) with spaces.
padStart(s, width) ==
  IF Len(s) >= width THEN s ELSE [i \in 1..(width - Len(s)) |-> " "] \o s

-----------------------------------------------------------------------------
(* formatSize and formatPermissions. *)

\* formatSize with Math.floor in place of Math.round.
formatSizeFloor(size, humanReadable) ==
  IF ~humanReadable THEN toString(size)
  ELSE IF Below(size, 1) THEN toString(size)
  ELSE IF Below(size, 2) THEN Append(toString(NumberOf(IntOf(SubSeq(size, 2, Len(size))))), "K")
  ELSE IF Below(size, 3) THEN Append(toString(NumberOf(IntOf(SubSeq(size, 3, Len(size))))), "M")
  ELSE IF Below(size, 4) THEN Append(toString(NumberOf(IntOf(SubSeq(size, 4, Len(size))))), "G")
  ELSE Append(toString(NumberOf(IntOf(SubSeq(size, 5, Len(size))))), "T")

formatSize(size, humanReadable) ==
  IF ~humanReadable THEN toString(size)
  ELSE IF Below(size, 1) THEN toString(size)
  ELSE IF Below(size, 2) THEN Append(toString(NumberOf(RoundedQuotient(size, 1))), "K")
  ELSE IF Below(size, 3) THEN Append(toString(NumberOf(RoundedQuotient(size, 2))), "M")
  ELSE IF Below(size, 4) THEN Append(toString(NumberOf(RoundedQuotient(size, 3))), "G")
  ELSE Append(toString(NumberOf(RoundedQuotient(size, 4))), "T")

\* a & b on non-negative integers.
RECURSIVE BitAnd(_, _)
BitAnd(a, b) ==
  IF a = 0 \/ b = 0 THEN 0
  ELSE (a % 2) * (b % 2) + 2 * BitAnd(a \div 2, b \div 2)

RECURSIVE Pow2(_)
Pow2(n) == IF n = 0 THEN 1 ELSE 2 * Pow2(n - 1)

\* a >> n
ShiftRight(a, n) == a \div Pow2(n)

perms ==
  << <<"-","-","-">>, <<"-","-","x">>, <<"-","w","-">>, <<"-","w","x">>,
     <<"r","-","-">>, <<"r","-","x">>, <<"r","w","-">>, <<"r","w","x">> >>

formatPermissions(mode) ==
  Concat(<< (IF BitAnd(mode, \o40000) # 0 THEN <<"d">> ELSE <<"-">>),
            perms[ShiftRight(BitAnd(mode, \o700), 6) + 1],
            perms[ShiftRight(BitAnd(mode, \o070), 3) + 1],
            perms[BitAnd(mode, \o007) + 1] >>)

\* The rendering is locale-dependent; it is kept as the timestamp it renders.
formatDate(date) == <<date>>

-----------------------------------------------------------------------------
(* fs.Stats, the type indicator and the colour. *)

S_IFMT == \o170000
S_IFIFO == \o010000
S_IFCHR == \o020000
S_IFDIR == \o040000
S_IFBLK == \o060000
S_IFREG == \o100000
S_IFLNK == \o120000
S_IFSOCK == \o140000

isDirectory(stats) == BitAnd(stats.mode, S_IFMT) = S_IFDIR
isSymbolicLink(stats) == BitAnd(stats.mode, S_IFMT) = S_IFLNK
isSocket(stats) == BitAnd(stats.mode, S_IFMT) = S_IFSOCK
isFIFO(stats) == BitAnd(stats.mode, S_IFMT) = S_IFIFO

colors ==
  [reset |-> "ESC[0m", directory |-> "ESC[34m", executable |-> "ESC[32m",
   symlink |-> "ESC[36m", socket |-> "ESC[35m", fifo |-> "ESC[33m",
   regular |-> "ESC[0m"]

getFileTypeIndicator(stats) ==
  IF isDirectory(stats) THEN <<"/">>
  ELSE IF isSymbolicLink(stats) THEN <<"@">>
  ELSE IF isSocket(stats) THEN <<"=">>
  ELSE IF isFIFO(stats) THEN <<"|">>
  ELSE IF BitAnd(stats.mode, \o111) # 0 THEN <<"*">>
  ELSE <<>>

getFileColor(stats) ==
  IF isDirectory(stats) THEN colors.directory
  ELSE IF isSymbolicLink(stats) THEN colors.symlink
  ELSE IF isSocket(stats) THEN colors.socket
  ELSE IF isFIFO(stats) THEN colors.fifo
  ELSE IF BitAnd(stats.mode, \o111) # 0 THEN colors.executable
  ELSE colors.regular

shouldUseColor(colorOption, tty) ==
  IF colorOption = <<"a","l","w","a","y","s">> THEN TRUE
  ELSE IF colorOption = <<"n","e","v","e","r">> THEN FALSE
  ELSE tty

-----------------------------------------------------------------------------
(* sortItems. *)

\* The collation order of the characters entry names are written with.
Collation ==
  <<".", "a", "b", "c", "d", "e", "f", "g", "h", "i", "j", "k", "l", "m",
    "n", "o", "p", "q", "r", "s", "t", "u", "v", "w", "x", "y", "z">>

\* a.localeCompare(b): negative, zero or positive.
RECURSIVE localeCompare(_, _)
localeCompare(a, b) ==
  IF a = <<>> /\ b = <<>> THEN 0
  ELSE IF a = <<>> THEN -1
  ELSE IF b = <<>> THEN 1
  ELSE IF Head(a) # Head(b)
       THEN IndexOf(Collation, Head(a)) - IndexOf(Collation, Head(b))
       ELSE localeCompare(Tail(a), Tail(b))

\* The three comparators handed to Array.prototype.sort.
compareFn(key, a, b) ==
  IF key = "size" THEN Compare(b.stats.size, a.stats.size, Len(a.stats.size))
  ELSE IF key = "time" THEN b.stats.mtime - a.stats.mtime
  ELSE localeCompare(a.name, b.name)

\* Array.prototype.sort is stable: an item goes before the first item that
\* compares greater, after every item that compares equal.
RECURSIVE InsertSorted(_, _, _)
InsertSorted(sorted, x, key) ==
  IF sorted = <<>> THEN <<x>>
  ELSE IF compareFn(key, Head(sorted), x) > 0 THEN <<x>> \o sorted
  ELSE <<Head(sorted)>> \o InsertSorted(Tail(sorted), x, key)

RECURSIVE SortBy(_, _, _)
SortBy(list, key, sorted) ==
  IF list = <<>> THEN sorted
  ELSE SortBy(Tail(list), key, InsertSorted(sorted, Head(list), key))

\* sortItems looking at the time flag before the size flag.
sortItemsTimeFirst(list, o) ==
  LET sorted == IF o["time"] THEN SortBy(list, "time", <<>>)
                ELSE IF o["size"] THEN SortBy(list, "size", <<>>)
                ELSE SortBy(list, "name", <<>>)
  IN IF o["reverse"] THEN Reverse(sorted) ELSE sorted

\* sortItems with the reversal applied before the sort instead of after it.
sortItemsReverseFirst(list, o) ==
  LET start == IF o["reverse"] THEN Reverse(list) ELSE list
  IN IF o["size"] THEN SortBy(start, "size", <<>>)
     ELSE IF o["time"] THEN SortBy(start, "time", <<>>)
     ELSE SortBy(start, "name", <<>>)

sortItems(list, o) ==
  LET sorted == IF o["size"] THEN SortBy(list, "size", <<>>)
                ELSE IF o["time"] THEN SortBy(list, "time", <<>>)
                ELSE SortBy(list, "name", <<>>)
  IN IF o["reverse"] THEN Reverse(sorted) ELSE sorted

-----------------------------------------------------------------------------
(* The run: main() and listDirectory(). *)

HelpLine == [form |-> "help", perms |-> <<>>, size |-> <<>>, date |-> <<>>, cells |-> <<>>]

\* The default-behaviour override of main().
userSpecifiedOptions(args) == \E i \in 1..Len(args) : StartsWith(args[i], <<"-">>)

onlyLongOption(args) == Len(args) = 1 /\ args[1] = <<"-","l">>

applyDefaultBehavior(values, args) ==
  IF ~userSpecifiedOptions(args) \/ onlyLongOption(args)
  THEN [values EXCEPT !["classify"] = TRUE,
                      !["color"] = IF @ = <<"a","u","t","o">>
                                   THEN <<"a","l","w","a","y","s">> ELSE @]
  ELSE values

Main ==
  /\ pc = "main"
  /\ LET defaultOptions == parseDefaultOptions(LS_OPTIONS)
         allArgs == defaultOptions \o argv
         parsed == parseArgs(allArgs)
     IN IF parsed.error
        THEN /\ stderr' = Append(stderr, [prefix |-> "Error:", subject |-> <<>>])
             /\ exitCode' = 1
             /\ pc' = "exited"
             /\ UNCHANGED <<opts, directory, stdout>>
        ELSE IF parsed.values["help"]
        THEN /\ stdout' = Append(stdout, HelpLine)
             /\ pc' = "exited"
             /\ UNCHANGED <<opts, directory, stderr, exitCode>>
        ELSE /\ opts' = applyDefaultBehavior(parsed.values, argv)
             /\ directory' = IF parsed.positionals # <<>> /\ parsed.positionals[1] # <<>>
                             THEN parsed.positionals[1] ELSE <<".">>
             /\ pc' = "readdir"
             /\ UNCHANGED <<stdout, stderr, exitCode>>
  /\ UNCHANGED <<LS_OPTIONS, argv, fs, isTTY, entries, idx, items, sortedItems,
                 fsLog, call>>

\* Readdir without the process.exit(1) of the catch block: the error is
\* reported and the listing goes on with no entries.
ReaddirGoesOn ==
  /\ pc = "readdir"
  /\ fsLog' = Append(fsLog, [op |-> "readdir", path |-> directory, ok |-> fs.readable])
  /\ entries' = IF fs.readable
                THEN [i \in 1..Len(fs.members) |-> fs.members[i].name] ELSE <<>>
  /\ items' = <<>>
  /\ idx' = 1
  /\ pc' = "stat"
  /\ stderr' = IF fs.readable THEN stderr
               ELSE Append(stderr, [prefix |-> "ls: cannot access", subject |-> directory])
  /\ UNCHANGED <<LS_OPTIONS, argv, fs, isTTY, opts, directory, sortedItems, stdout,
                 exitCode, call>>

Readdir ==
  /\ pc = "readdir"
  /\ fsLog' = Append(fsLog, [op |-> "readdir", path |-> directory, ok |-> fs.readable])
  /\ IF fs.readable
     THEN /\ entries' = [i \in 1..Len(fs.members) |-> fs.members[i].name]
          /\ items' = <<>>
          /\ idx' = 1
          /\ pc' = "stat"
          /\ UNCHANGED <<stderr, exitCode>>
     ELSE /\ stderr' = Append(stderr, [prefix |-> "ls: cannot access",
                                       subject |-> directory])
          /\ exitCode' = 1
          /\ pc' = "exited"
          /\ UNCHANGED <<entries, idx, items>>
  /\ UNCHANGED <<LS_OPTIONS, argv, fs, isTTY, opts, directory, sortedItems, stdout, call>>

\* The filter without its test of the all option.
skipEntryAlways(entry, o) == StartsWith(entry, <<".">>)

\* The hidden-entry filter at the head of the loop.
skipEntry(entry, o) == ~o["all"] /\ StartsWith(entry, <<".">>)

\* path.join(directory, entry)
join(dir, entry) == dir \o <<"/">> \o entry

\* What stat(fullPath) answers for an entry of the directory.
statOf(entry) == CHOOSE m \in {fs.members[i] : i \in 1..Len(fs.members)} : m.name = entry

\* StatEntry with a failed query treated as fatal.
StatEntryAborting ==
  /\ pc = "stat"
  /\ idx <= Len(entries)
  /\ LET entry == entries[idx]
         fullPath == join(directory, entry)
     IN IF skipEntry(entry, opts)
        THEN /\ idx' = idx + 1
             /\ UNCHANGED <<items, stderr, fsLog, pc, exitCode>>
        ELSE /\ fsLog' = Append(fsLog, [op |-> "stat", path |-> fullPath,
                                        ok |-> statOf(entry).statOk])
             /\ IF statOf(entry).statOk
                THEN /\ items' = Append(items, [name |-> entry,
                                                stats |-> statOf(entry).stats,
                                                fullPath |-> fullPath])
                     /\ idx' = idx + 1
                     /\ UNCHANGED <<stderr, pc, exitCode>>
                ELSE /\ stderr' = Append(stderr, [prefix |-> "ls: cannot access",
                                                  subject |-> entry])
                     /\ exitCode' = 1
                     /\ pc' = "exited"
                     /\ UNCHANGED <<items, idx>>
  /\ UNCHANGED <<LS_OPTIONS, argv, fs, isTTY, opts, directory, entries, sortedItems,
                 stdout, call>>

StatEntry ==
  /\ pc = "stat"
  /\ idx <= Len(entries)
  /\ LET entry == entries[idx]
         fullPath == join(directory, entry)
     IN IF skipEntry(entry, opts)
        THEN /\ idx' = idx + 1
             /\ UNCHANGED <<items, stderr, fsLog, pc, exitCode>>
        ELSE /\ fsLog' = Append(fsLog, [op |-> "stat", path |-> fullPath,
                                        ok |-> statOf(entry).statOk])
             /\ IF statOf(entry).statOk
                THEN /\ items' = Append(items, [name |-> entry,
                                                stats |-> statOf(entry).stats,
                                                fullPath |-> fullPath])
                     /\ idx' = idx + 1
                     /\ UNCHANGED <<stderr, pc, exitCode>>
                ELSE /\ stderr' = Append(stderr, [prefix |-> "ls: cannot access",
                                                  subject |-> entry])
                     /\ idx' = idx + 1
                     /\ UNCHANGED <<items, pc, exitCode>>
  /\ UNCHANGED <<LS_OPTIONS, argv, fs, isTTY, opts, directory, entries, sortedItems,
                 stdout, call>>

Cell(item, o, useColor) ==
  [color |-> IF useColor THEN getFileColor(item.stats) ELSE "",
   name |-> item.name,
   indicator |-> IF o["classify"] THEN getFileTypeIndicator(item.stats) ELSE <<>>,
   reset |-> IF useColor THEN colors.reset ELSE ""]

LongLine(item, o, useColor) ==
  [form |-> "long",
   perms |-> formatPermissions(item.stats.mode),
   size |-> padStart(formatSize(item.stats.size, o["human-readable"]), 8),
   date |-> formatDate(item.stats.mtime),
   cells |-> <<Cell(item, o, useColor)>>]

ShortLine(list, o, useColor) ==
  [form |-> "short", perms |-> <<>>, size |-> <<>>, date |-> <<>>,
   cells |-> [i \in 1..Len(list) |-> Cell(list[i], o, useColor)]]

Render ==
  /\ pc = "stat"
  /\ idx > Len(entries)
  /\ LET sorted == sortItems(items, opts)
         useColor == shouldUseColor(opts["color"], isTTY)
     IN /\ sortedItems' = sorted
        /\ stdout' = stdout \o
             (IF opts["long"]
              THEN [i \in 1..Len(sorted) |-> LongLine(sorted[i], opts, useColor)]
              ELSE <<ShortLine(sorted, opts, useColor)>>)
  /\ pc' = "exited"
  /\ UNCHANGED <<LS_OPTIONS, argv, fs, isTTY, opts, directory, entries, idx, items,
                 stderr, exitCode, fsLog, call>>

Next == Main \/ Readdir \/ StatEntry \/ Render

-----------------------------------------------------------------------------
(* Inputs. *)

NoCall == [fn |-> "", name |-> <<>>, mode |-> 0, size |-> <<>>, human |-> FALSE,
           returned |-> FALSE, out |-> <<>>, color |-> ""]

\* The state of a run before main() starts, for given inputs.
Start(env, args, dir, tty) ==
  /\ LS_OPTIONS = env
  /\ argv = args
  /\ fs = dir
  /\ isTTY = tty
  /\ pc = "main"
  /\ opts = DefaultValues
  /\ directory = <<>>
  /\ entries = <<>>
  /\ idx = 1
  /\ items = <<>>
  /\ sortedItems = <<>>
  /\ stdout = <<>>
  /\ stderr = <<>>
  /\ exitCode = 0
  /\ fsLog = <<>>
  /\ call = NoCall

ArgvTokens ==
  { <<"-","l">>, <<"-","-","l","o","n","g">>, <<"-","a">>, <<"-","S">>, <<"-","t">>,
    <<"-","r">>, <<"-","x">>, <<"d","i","r">>, <<"-","-","h","e","l","p">>,
    <<"-","-","c","o","l","o","r","=","b","o","g","u","s">>,
    <<"-","-","c","o","l","o","r","=","n","e","v","e","r">> }

EnvTokens ==
  { <<"-","S">>, <<"-","t">>, <<"-","x">>,
    <<"-","-","c","o","l","o","r","=","n","e","v","e","r">> }

RegularFile == S_IFREG + \o644

File(name, ok, mode, size, mtime) ==
  [name |-> name, statOk |-> ok, stats |-> [mode |-> mode, size |-> size, mtime |-> mtime]]

\* One directory: a hidden entry, an entry whose metadata cannot be read, and
\* three entries whose orders by name, by size and by time all differ.
ScenarioMembers ==
  << File(<<".","h">>, TRUE, RegularFile, <<10, 0, 0, 0, 0>>, 4),
     File(<<"b">>, TRUE, S_IFREG + \o755, <<128, 929, 1, 0, 0>>, 2),
     File(<<"x">>, FALSE, RegularFile, <<0, 0, 0, 0, 0>>, 0),
     File(<<"a">>, TRUE, RegularFile, <<500, 0, 0, 0, 0>>, 1),
     File(<<"c">>, TRUE, S_IFDIR + \o755, <<500, 0, 0, 0, 0>>, 3) >>

Init ==
  \E envTokens \in SeqsUpTo(EnvTokens, MaxEnvArgs), args \in SeqsUpTo(ArgvTokens, MaxArgs),
     readable \in BOOLEAN, tty \in BOOLEAN :
    Start(JoinWith(envTokens, <<" ">>), args,
          [readable |-> readable, members |-> ScenarioMembers], tty)

Spec == Init /\ [][Next]_vars

-----------------------------------------------------------------------------
(* Directories of every content, for the collector and for the sort. *)

NamePool == { <<".","h">>, <<"a">>, <<"b">>, <<"c">> }

\* The sequences of distinct elements of S of length at most n: a directory
\* holds no name twice, and readdir returns the names in no particular order.
RECURSIVE DistinctSeqs(_, _)
DistinctSeqs(S, n) ==
  IF n = 0 THEN {<<>>}
  ELSE LET shorter == DistinctSeqs(S, n - 1)
       IN shorter \cup
          UNION { {Append(s, x) : x \in {y \in S : \A i \in 1..Len(s) : s[i] # y}} :
                  s \in shorter }

SomeSize == <<500, 0, 0, 0, 0>>

CollectDirs ==
  UNION { { [readable |-> readable,
             members |-> [i \in 1..Len(names) |->
                            File(names[i], ok[i], RegularFile, SomeSize, 1)]] :
            ok \in [1..Len(names) -> BOOLEAN], readable \in BOOLEAN } :
          names \in DistinctSeqs(NamePool, MaxEntries) }

CollectArgs ==
  { <<>>, << <<"-","a">> >>, << <<"-","l">> >>, << <<"-","l","a">> >>,
    << <<"-","a">>, <<"-","S">> >> }

InitCollect ==
  \E args \in CollectArgs, dir \in CollectDirs, tty \in BOOLEAN :
    Start(<<>>, args, dir, tty)

SpecCollect == InitCollect /\ [][Next]_vars

SortSizes == { <<500, 0, 0, 0, 0>>, <<128, 929, 1, 0, 0>> }
SortTimes == {1, 2}

SortDirs ==
  UNION { { [readable |-> TRUE,
             members |-> [i \in 1..Len(names) |->
                            File(names[i], TRUE, RegularFile, attr[i][1], attr[i][2])]] :
            attr \in [1..Len(names) -> SortSizes \X SortTimes] } :
          names \in DistinctSeqs(NamePool, MaxEntries) }

SortArgs ==
  { << <<"-","a">> >> \o keys : keys \in
      { <<>>, << <<"-","r">> >>,
        << <<"-","S">> >>, << <<"-","S">>, <<"-","r">> >>,
        << <<"-","t">> >>, << <<"-","t">>, <<"-","r">> >>,
        << <<"-","S">>, <<"-","t">> >>, << <<"-","t">>, <<"-","S","r">> >> } }

InitSort ==
  \E args \in SortArgs, dir \in SortDirs : Start(<<>>, args, dir, FALSE)

SpecSort == InitSort /\ [][Next]_vars

-----------------------------------------------------------------------------
(* Direct calls of the formatting functions, on inputs of every shape. *)

LimbSamples == {0, 1, 10, 511, 512, 1023}

Sizes ==
  { <<a, b, c, d, e>> : a \in LimbSamples, b \in LimbSamples, c \in LimbSamples,
                        d \in LimbSamples, e \in {0, 1, MaxTopLimb} }

FileTypes == {S_IFIFO, S_IFCHR, S_IFDIR, S_IFBLK, S_IFREG, S_IFLNK, S_IFSOCK}

Modes == { type + bits : type \in FileTypes, bits \in 0..(\o777) }

Names ==
  { <<"a">>, <<"r","u","n",".","e","x","e">>, <<"S","E","T","U","P",".","M","S","I">>,
    <<"e","x","e">> }

\* A call that has not returned yet.
Pending(fn, name, mode, size, human) ==
  [fn |-> fn, name |-> name, mode |-> mode, size |-> size, human |-> human,
   returned |-> FALSE, out |-> <<>>, color |-> ""]

Calls ==
  { Pending("formatSize", <<>>, 0, size, human) : size \in Sizes, human \in BOOLEAN }
  \cup { Pending("formatPermissions", <<>>, mode, SomeSize, FALSE) : mode \in Modes }
  \cup { Pending("classify", name, mode, SomeSize, FALSE) : name \in Names, mode \in Modes }

CallFormatSize ==
  /\ call.fn = "formatSize" /\ ~call.returned
  /\ call' = [call EXCEPT !.returned = TRUE, !.out = formatSize(call.size, call.human)]
  /\ UNCHANGED runVars

CallFormatPermissions ==
  /\ call.fn = "formatPermissions" /\ ~call.returned
  /\ call' = [call EXCEPT !.returned = TRUE, !.out = formatPermissions(call.mode)]
  /\ UNCHANGED runVars

\* The two calls listDirectory makes for an item when it classifies and colours.
CallClassify ==
  /\ call.fn = "classify" /\ ~call.returned
  /\ LET stats == [mode |-> call.mode, size |-> call.size, mtime |-> 1]
     IN call' = [call EXCEPT !.returned = TRUE,
                             !.out = getFileTypeIndicator(stats),
                             !.color = getFileColor(stats)]
  /\ UNCHANGED runVars

NextFmt == CallFormatSize \/ CallFormatPermissions \/ CallClassify

InitFmt ==
  /\ \E c \in Calls : call = c
  /\ LS_OPTIONS = <<>>
  /\ argv = <<>>
  /\ fs = [readable |-> TRUE, members |-> <<>>]
  /\ isTTY = FALSE
  /\ pc = "main"
  /\ opts = DefaultValues
  /\ directory = <<>>
  /\ entries = <<>>
  /\ idx = 1
  /\ items = <<>>
  /\ sortedItems = <<>>
  /\ stdout = <<>>
  /\ stderr = <<>>
  /\ exitCode = 0
  /\ fsLog = <<>>

SpecFmt == InitFmt /\ [][NextFmt]_vars

-----------------------------------------------------------------------------
(* What a run shows, read off its state. *)

ReaddirFailed == fsLog # <<>> /\ ~fsLog[1].ok
ReaddirSucceeded == fsLog # <<>> /\ fsLog[1].ok

Members == {fs.members[i] : i \in 1..Len(fs.members)}

\* The names printed, in the order printed.
ListedSeq == Concat([i \in 1..Len(stdout) |->
                       [j \in 1..Len(stdout[i].cells) |-> stdout[i].cells[j].name]])

ListedNames == {ListedSeq[i] : i \in 1..Len(ListedSeq)}

\* The stat calls made, by entry name.
Queried(name) == \E i \in 1..Len(fsLog) :
                   fsLog[i].op = "stat" /\ fsLog[i].path = join(directory, name)

QueryFailed(name) == \E i \in 1..Len(fsLog) :
                       /\ fsLog[i].op = "stat"
                       /\ fsLog[i].path = join(directory, name)
                       /\ ~fsLog[i].ok

Warnings(name) == {i \in 1..Len(stderr) : stderr[i].subject = name}

Hidden(name) == name # <<>> /\ name[1] = "."

\* C1: when the directory cannot be read, the run prints an error message,
\* ends with a non-zero exit status and prints no line on the output stream,
\* whatever the options.
C1_UnreadableDirectory ==
  ReaddirFailed =>
    /\ pc = "exited"
    /\ exitCode # 0
    /\ stdout = <<>>
    /\ stderr = << [prefix |-> "ls: cannot access", subject |-> directory] >>
    /\ Len(fsLog) = 1

C1_Witness ==
  /\ ReaddirFailed
  /\ pc = "exited"
  /\ opts["long"]
  /\ opts["all"]
  /\ LS_OPTIONS # <<>>

\* C2: after a listing of a readable directory, the names printed are exactly
\* the members that are not hidden (or any member when showHidden is set) and
\* whose metadata query succeeds, each printed once.
C2_ListedSet ==
  (pc = "exited" /\ ReaddirSucceeded) =>
    /\ ListedNames = {m.name : m \in {x \in Members :
                                        (opts["all"] \/ ~Hidden(x.name)) /\ x.statOk}}
    /\ Len(ListedSeq) = Cardinality(ListedNames)

C2_Witness ==
  /\ pc = "exited"
  /\ ReaddirSucceeded
  /\ ~opts["all"]
  /\ \E m \in Members : Hidden(m.name) /\ m.statOk
  /\ \E m \in Members : ~Hidden(m.name) /\ ~m.statOk
  /\ Cardinality(ListedNames) = 1

\* C3 as stated: with a readable directory, a failed metadata query never
\* aborts the run: each failing member has exactly one warning, every member
\* after it in enumeration order is queried and, if its query succeeds,
\* listed, and the exit status is 0.
C3_AsStated ==
  ReaddirSucceeded =>
    /\ exitCode = 0
    /\ pc = "exited" =>
         \A i \in 1..Len(fs.members) :
           QueryFailed(fs.members[i].name) =>
             /\ Cardinality(Warnings(fs.members[i].name)) = 1
             /\ \A j \in (i + 1)..Len(fs.members) :
                  /\ Queried(fs.members[j].name)
                  /\ fs.members[j].statOk => fs.members[j].name \in ListedNames

\* C3, amended: as C3, for the members after the failing one that pass the
\* hidden filter (a hidden member is not queried unless showHidden is set);
\* a member whose query did not fail has no warning.
C3_PartialFailure ==
  ReaddirSucceeded =>
    /\ exitCode = 0
    /\ pc = "exited" =>
         /\ \A i \in 1..Len(fs.members) :
              QueryFailed(fs.members[i].name) =>
                /\ Cardinality(Warnings(fs.members[i].name)) = 1
                /\ \A j \in (i + 1)..Len(fs.members) :
                     (opts["all"] \/ ~Hidden(fs.members[j].name)) =>
                       /\ Queried(fs.members[j].name)
                       /\ fs.members[j].statOk => fs.members[j].name \in ListedNames
         /\ Len(stderr) = Cardinality({m \in Members : QueryFailed(m.name)})

C3_Witness ==
  /\ pc = "exited"
  /\ ReaddirSucceeded
  /\ Len(fs.members) = 3
  /\ QueryFailed(fs.members[1].name)
  /\ QueryFailed(fs.members[2].name)
  /\ fs.members[3].name \in ListedNames
  /\ Len(stderr) = 2
  /\ exitCode = 0

-----------------------------------------------------------------------------
(* Arguments, as the claims speak of them. *)

AllArgs == parseDefaultOptions(LS_OPTIONS) \o argv

Parsed == parseArgs(AllArgs)

\* main() went on to list the directory: no parse error, no --help.
ListingStarted == pc # "main" /\ ~Parsed.error /\ ~Parsed.values["help"]

LongFormatFlags == { <<"-","l">>, <<"-","-","l","o","n","g">> }

NoFlagOrOnlyLong ==
  \/ \A i \in 1..Len(argv) : ~StartsWith(argv[i], <<"-">>)
  \/ Len(argv) = 1 /\ argv[1] \in LongFormatFlags

Overridden(values) ==
  [n \in OptionNames |->
     IF n = "classify" THEN TRUE
     ELSE IF n = "color" /\ values[n] = <<"a","u","t","o">> THEN <<"a","l","w","a","y","s">>
     ELSE values[n]]

\* C4 as stated: the override (classify forced, colour auto promoted to
\* always) is applied exactly when the command line carries no flag, or
\* exactly the one long-format flag, -l or --long; flags of LS_OPTIONS do not
\* count, and a colour other than auto stays.
C4_AsStated ==
  ListingStarted =>
    opts = IF NoFlagOrOnlyLong THEN Overridden(Parsed.values) ELSE Parsed.values

ColorValues ==
  { <<"a","l","w","a","y","s">>, <<"a","u","t","o">>, <<"n","e","v","e","r">> }

UnknownFlag(tok) ==
  /\ StartsWith(tok, <<"-">>)
  /\ Len(tok) > 1
  /\ tok # <<"-","-">>
  /\ IF StartsWith(tok, <<"-","-">>)
     THEN LET body == SubSeq(tok, 3, Len(tok))
              eq == IndexOf(body, "=")
          IN LongKey(IF eq = 0 THEN body ELSE SubSeq(body, 1, eq - 1)) = ""
     ELSE \E j \in 2..Len(tok) : ShortKey(tok[j]) = ""

BadColorValue(tok) ==
  /\ StartsWith(tok, <<"-","-","c","o","l","o","r","=">>)
  /\ SubSeq(tok, 9, Len(tok)) \notin ColorValues

Malformed(args) == \E i \in 1..Len(args) : UnknownFlag(args[i]) \/ BadColorValue(args[i])

\* C7 as stated: a run with a malformed argument (an unknown flag, or a
\* --color value other than always, auto, never) prints a message, exits
\* non-zero and makes no filesystem call.
C7_AsStated ==
  Malformed(AllArgs) =>
    /\ fsLog = <<>>
    /\ pc # "main" => (pc = "exited" /\ exitCode # 0 /\ stderr # <<>> /\ stdout = <<>>)

-----------------------------------------------------------------------------
(* Orders. *)

PositionIn(list, name) == CHOOSE i \in 1..Len(list) : list[i].name = name

\* a goes strictly before b under the key: larger size first, newer first,
\* smaller name first.
KeyBefore(key, a, b) ==
  IF key = "size" THEN IntOf(a.stats.size) > IntOf(b.stats.size)
  ELSE IF key = "time" THEN a.stats.mtime > b.stats.mtime
  ELSE localeCompare(a.name, b.name) < 0

\* seq holds the items of base, ordered by the key, items of equal key in the
\* order base has them.
StableSortedBy(seq, base, key) ==
  /\ Len(seq) = Len(base)
  /\ {seq[i] : i \in 1..Len(seq)} = {base[i] : i \in 1..Len(base)}
  /\ \A i, j \in 1..Len(seq) :
       i < j => \/ KeyBefore(key, seq[i], seq[j])
                \/ /\ ~KeyBefore(key, seq[j], seq[i])
                   /\ PositionIn(base, seq[i].name) < PositionIn(base, seq[j].name)

HasFlag(args, c) == \E i \in 1..Len(args) : args[i] = <<"-", c>>

Unreversed == IF opts["reverse"] THEN Reverse(sortedItems) ELSE sortedItems

Rendered == pc = "exited" /\ ReaddirSucceeded

\* C10: one sort key per run: with the size flag and the time flag both given
\* (in LS_OPTIONS, on the command line, in either order) the entries are
\* listed by size alone, entries of equal size in enumeration order whatever
\* their times; with neither flag they are listed by name.
C10_OneSortKey ==
  Rendered =>
    /\ ListedSeq = [i \in 1..Len(sortedItems) |-> sortedItems[i].name]
    /\ (HasFlag(AllArgs, "S") /\ HasFlag(AllArgs, "t")) =>
         StableSortedBy(Unreversed, items, "size")
    /\ (~HasFlag(AllArgs, "S") /\ ~HasFlag(AllArgs, "t")) =>
         StableSortedBy(Unreversed, items, "name")

C10_Witness ==
  /\ Rendered
  /\ HasFlag(parseDefaultOptions(LS_OPTIONS), "t")
  /\ HasFlag(argv, "S")
  /\ Len(sortedItems) = 3
  /\ sortedItems[2].stats.mtime < sortedItems[3].stats.mtime
  /\ sortedItems[2].stats.size = sortedItems[3].stats.size

\* C5: sorted by size (by time) the listing is in non-increasing order of
\* size (of time), with reverse in non-decreasing order; and under every key
\* the listing with reverse is the listing without it read backwards, equal
\* keys included.
C5_SortOrder ==
  Rendered =>
    /\ ListedSeq = [i \in 1..Len(sortedItems) |-> sortedItems[i].name]
    /\ \A i, j \in 1..Len(sortedItems) :
         i < j =>
           /\ opts["size"] =>
                IF opts["reverse"]
                THEN IntOf(sortedItems[i].stats.size) <= IntOf(sortedItems[j].stats.size)
                ELSE IntOf(sortedItems[i].stats.size) >= IntOf(sortedItems[j].stats.size)
           /\ (~opts["size"] /\ opts["time"]) =>
                IF opts["reverse"]
                THEN sortedItems[i].stats.mtime <= sortedItems[j].stats.mtime
                ELSE sortedItems[i].stats.mtime >= sortedItems[j].stats.mtime
    /\ StableSortedBy(Unreversed, items,
                      IF opts["size"] THEN "size" ELSE IF opts["time"] THEN "time" ELSE "name")

C5_Witness ==
  /\ Rendered
  /\ opts["reverse"]
  /\ opts["size"]
  /\ Len(sortedItems) = 3
  /\ sortedItems[1].stats.size = sortedItems[2].stats.size
  /\ sortedItems[2].stats.size # sortedItems[3].stats.size
  /\ PositionIn(items, sortedItems[1].name) > PositionIn(items, sortedItems[2].name)

-----------------------------------------------------------------------------
(* The formatting functions. *)

UpperCase == <<"E", "I", "M", "P", "S", "T", "U", "X">>
LowerCase == <<"e", "i", "m", "p", "s", "t", "u", "x">>

ToLower(str) ==
  [i \in 1..Len(str) |->
     IF IndexOf(UpperCase, str[i]) # 0 THEN LowerCase[IndexOf(UpperCase, str[i])]
     ELSE str[i]]

\* The extension of a name: from its last dot on, <<>> when it has no dot
\* after its first character.
ExtName(name) ==
  LET dots == {i \in 2..Len(name) : name[i] = "."}
  IN IF dots = {} THEN <<>>
     ELSE SubSeq(name, CHOOSE i \in dots : \A j \in dots : j <= i, Len(name))

ExecutableExtensions ==
  { <<".","e","x","e">>, <<".","c","m","d">>, <<".","b","a","t">>, <<".","p","s","1">>,
    <<".","c","o","m">>, <<".","s","c","r">>, <<".","m","s","i">> }

FileType(mode) == BitAnd(mode, S_IFMT)

\* C6 as stated: an entry that is no directory, symlink, socket or fifo has
\* the indicator '*' and the colour green exactly when its mode has an
\* execute bit or its extension, lower-cased, is in the allowlist.
C6_AsStated ==
  (/\ call.fn = "classify"
   /\ call.returned
   /\ FileType(call.mode) \notin {S_IFDIR, S_IFLNK, S_IFSOCK, S_IFIFO}) =>
    LET executable == \/ BitAnd(call.mode, \o111) # 0
                      \/ ToLower(ExtName(call.name)) \in ExecutableExtensions
    IN /\ call.out = <<"*">> <=> executable
       /\ call.color = colors.executable <=> executable

HasBit(mode, k) == (mode \div Pow2(k)) % 2 = 1

\* C8 as stated: the permission string has 10 characters, the first is 'd'
\* for a directory and '-' for every other type, and characters 2 to 10 are
\* r, w, x or '-' by the nine permission bits.
C8_AsStated ==
  (call.fn = "formatPermissions" /\ call.returned) =>
    /\ Len(call.out) = 10
    /\ call.out[1] = (IF FileType(call.mode) = S_IFDIR THEN "d" ELSE "-")
    /\ \A k \in 0..8 :
         call.out[10 - k] = (IF HasBit(call.mode, k) THEN <<"x", "w", "r">>[(k % 3) + 1]
                             ELSE "-")

Suffixes == <<"K", "M", "G", "T">>

HasSuffix(str) == str # <<>> /\ IndexOf(Suffixes, str[Len(str)]) # 0

DigitsOf(str) == IF HasSuffix(str) THEN SubSeq(str, 1, Len(str) - 1) ELSE str

\* A decimal numeral: digits only, no leading zero but for "0" itself.
IsDecimal(str) ==
  /\ str # <<>>
  /\ \A i \in 1..Len(str) : IndexOf(DigitChars, str[i]) # 0
  /\ str[1] = "0" => Len(str) = 1

\* n * m + c, the last digit of n taking what is carried into it.
RECURSIVE MulAdd(_, _, _, _)
MulAdd(n, m, c, i) ==
  LET cur == n[i] * m + c
  IN IF i = Len(n) THEN [n EXCEPT ![i] = cur]
     ELSE MulAdd([n EXCEPT ![i] = cur % KiB], m, cur \div KiB, i + 1)

\* The number a decimal numeral denotes, in as many base-1024 digits as acc.
RECURSIVE DecimalValue(_, _)
DecimalValue(str, acc) ==
  IF str = <<>> THEN acc
  ELSE DecimalValue(Tail(str), MulAdd(acc, 10, IndexOf(DigitChars, Head(str)) - 1, 1))

Printed(str) == IntOf(DecimalValue(DigitsOf(str), <<0, 0>>))

\* The unit formatSize is to pick: 1 (K) below 1024^2, 2 (M) below 1024^3,
\* 3 (G) below 1024^4, else 4 (T).
UnitOf(size) ==
  IF Below(size, 2) THEN 1 ELSE IF Below(size, 3) THEN 2 ELSE IF Below(size, 4) THEN 3 ELSE 4

\* size / 1024^k rounded to the nearest integer, halves up: the whole part of
\* (size + 1024^k / 2) / 1024^k.
Nearest(size, k) ==
  LET low == size[k] + (KiB \div 2)
      sum == IF low < KiB \/ k = Len(size) THEN [size EXCEPT ![k] = low]
             ELSE MulAdd([size EXCEPT ![k] = low - KiB], 1, 1, k + 1)
  IN IntOf(SubSeq(sum, k + 1, Len(sum)))

FormatSizeReturned == call.fn = "formatSize" /\ call.returned

\* C9 as stated: human-readable, a size of 1024 or more is printed in the
\* smallest unit that brings it below 1024, as an integer from 1 to 1023
\* before the suffix; a size below 1024, and any size when not
\* human-readable, is printed as its exact decimal integer.
C9_AsStated ==
  FormatSizeReturned =>
    IF call.human /\ ~Below(call.size, 1)
    THEN /\ HasSuffix(call.out)
         /\ IsDecimal(DigitsOf(call.out))
         /\ call.out[Len(call.out)] = Suffixes[UnitOf(call.size)]
         /\ Printed(call.out) \in 1..(KiB - 1)
    ELSE /\ IsDecimal(call.out)
         /\ DecimalValue(call.out, [i \in 1..Len(call.size) |-> 0]) = call.size

\* C9, amended: human-readable, a size of 1024 or more is printed in the unit
\* its unrounded value selects (K below 1024^2, M below 1024^3, G below
\* 1024^4, T from there on) as the size over the unit rounded to the nearest
\* integer: from 1 to 1024 for K, M and G, 1 or more for T.  The rest as
\* stated.
C9_FormatSize ==
  FormatSizeReturned =>
    IF call.human /\ ~Below(call.size, 1)
    THEN /\ HasSuffix(call.out)
         /\ IsDecimal(DigitsOf(call.out))
         /\ call.out[Len(call.out)] = Suffixes[UnitOf(call.size)]
         /\ Printed(call.out) = Nearest(call.size, UnitOf(call.size))
         /\ Printed(call.out) >= 1
         /\ UnitOf(call.size) < Len(Suffixes) => Printed(call.out) <= KiB
    ELSE /\ IsDecimal(call.out)
         /\ DecimalValue(call.out, [i \in 1..Len(call.size) |-> 0]) = call.size

C9_Witness ==
  /\ FormatSizeReturned
  /\ call.human
  /\ call.size = <<512, 1023, 0, 0, 0>>
  /\ call.out = <<"1", "0", "2", "4", "K">>

====
